---- MODULE Spec2Model ----
(***************************************************************************)
(* Stuttgart property tracker: the live service (property_scraper.py: three *)
(* caching adapters behind PropertyTrackerService and the /api/search       *)
(* handler) and the cache-only service (property_scraper_cached.py: the     *)
(* filter over CACHED_PROPERTIES and its own get_stats).                    *)
(*                                                                          *)
(* Python dicts are records; a key the dict does not carry is a field the   *)
(* record does not have, and dict.get(k, d) is Get(d, k, dflt).  A location *)
(* or region string is the sequence of its characters.  Time is in seconds  *)
(* since service start.  avgPricePerSqm, a float rounded to two decimals,   *)
(* is held as an integer number of hundredths.                              *)
(***************************************************************************)
EXTENDS Integers, Sequences, FiniteSets, TLC

VARIABLES
    mode,               \* which program runs: "live" or "cached"
    now,                \* datetime.now(), seconds since start
    ticks,              \* number of clock advances so far
    last_scraped,       \* adapter -> PropertyAdapter.last_scraped
    properties,         \* adapter -> PropertyAdapter.properties
    cache_file,         \* adapter -> content of PropertyAdapter.cache_file
    CACHED_PROPERTIES,  \* the pre-loaded catalog of the cache-only service
    pc,                 \* position of the /api/search handler
    filters,            \* request.json of the request being handled
    pending,            \* rest of the source list search_all_sources iterates
    all_properties,     \* search_all_sources: the merged input
    calls,              \* fetch_properties calls of this query and their outcome
    search_result,      \* what search_all_sources returned (or raised)
    response,           \* what the handler answered
    threads             \* thread -> its position in fetch_properties and locals

vars == <<mode, now, ticks, last_scraped, properties, cache_file,
          CACHED_PROPERTIES, pc, filters, pending, all_properties, calls,
          search_result, response, threads>>

liveVars == <<now, ticks, last_scraped, properties, cache_file, pending,
              all_properties, calls>>

-----------------------------------------------------------------------------
(* Bounds *)

MaxTicks == 1
MaxCatalog == 3

-----------------------------------------------------------------------------
(* Python values *)

EmptyDict == [k \in {} |-> 0]

Get(d, k, dflt) == IF k \in DOMAIN d THEN d[k] ELSE dflt

Range(seq) == {seq[i] : i \in 1..Len(seq)}

Front(seq) == SubSeq(seq, 1, Len(seq) - 1)

Last(seq) == seq[Len(seq)]

RECURSIVE Concat(_)
Concat(seqs) ==
    IF seqs = <<>> THEN <<>> ELSE Head(seqs) \o Concat(Tail(seqs))

\* JSON null.  A request body whose key k holds null is the dict whose entry
\* nulls names k; a body that is itself null (or missing) is NoneBody.
NoneBody == [nulls |-> {"request.json"}]

WithNull(k) == [nulls |-> {k}]

\* d.get(k, dflt) is None: the key is present and holds null.
IsNone(d, k) == "nulls" \in DOMAIN d /\ k \in d.nulls

\* Locations and regions, as character sequences.
LocMitte    == <<"M", " ", "7", "0", "1">>
LocLb       == <<"L", ",", " ", "7", "1", "6">>
LocTrailing == <<"F", " ", "7", "0", "3", " ">>
LocEmpty    == <<>>
LocBlank    == <<" ">>

\* A listing record with and without the daysOnMarket key.
Listing(t, p, a, loc, s, d) ==
    [title |-> t, price |-> p, area |-> a, location |-> loc, source |-> s,
     daysOnMarket |-> d]

ListingNoDays(t, p, a, loc, s) ==
    [title |-> t, price |-> p, area |-> a, location |-> loc, source |-> s]

-----------------------------------------------------------------------------
(* PropertyAdapter: the cache *)

cache_timeout == 3600

AdapterNames == {"sparkasse", "volksbank", "lbs"}

DefaultSources == <<"sparkasse", "volksbank", "lbs">>

NoneStamp == [kind |-> "none"]
BadStamp  == [kind |-> "bad"]
IsoStamp(t) == [kind |-> "iso", t |-> t]

MissingFile == [kind |-> "missing"]
CorruptFile == [kind |-> "corrupt"]
JsonFile(ls, props) == [kind |-> "json", lastScraped |-> ls, properties |-> props]

\* load_cache: json.load raises on a file that exists and is not JSON; there
\* is no try around it.
load_cache_raises(file) == file.kind = "corrupt"

\* load_cache when it does not raise: a missing file leaves the constructor's
\* empty state.
load_cache(file) ==
    IF file.kind = "missing"
    THEN [last_scraped |-> NoneStamp, properties |-> <<>>]
    ELSE [last_scraped |-> file.lastScraped, properties |-> file.properties]

\* PropertyAdapter.__init__: the attributes are set to None and [] and
\* load_cache is called; when it raises, the attributes are as the constructor
\* set them and the exception leaves the constructor.
AdapterInit(file) ==
    IF load_cache_raises(file)
    THEN [last_scraped |-> NoneStamp, properties |-> <<>>]
    ELSE load_cache(file)

\* is_cache_valid: fromisoformat raises on a stamp that is not ISO 8601.
is_cache_valid_raises(ls) == ls.kind = "bad"

\* Variant: the comparison with the timeout is not strict.
is_cache_valid_le(ls, t) ==
    /\ ls.kind = "iso"
    /\ t - ls.t <= cache_timeout

is_cache_valid(ls, t) ==
    /\ ls.kind = "iso"
    /\ t - ls.t < cache_timeout

-----------------------------------------------------------------------------
(* PropertyTrackerService (live): merge, deduplication, ordering *)

\* Variant: the source tag is part of the key.
DedupKey_withSource(prop) ==
    <<prop.title, prop.price, prop.location, prop.source>>

\* key = (prop.get("title"), prop.get("price"), prop.get("location"))
DedupKey(prop) == <<prop.title, prop.price, prop.location>>

\* The loop over all_properties with its seen set; rest is what is left to
\* visit.
RECURSIVE Dedup(_, _)
Dedup(rest, seen) ==
    IF rest = <<>> THEN <<>>
    ELSE LET key == DedupKey(Head(rest)) IN
         IF key \in seen
         THEN Dedup(Tail(rest), seen)
         ELSE <<Head(rest)>> \o Dedup(Tail(rest), seen \cup {key})

\* Variant: the normalization default 0 in place of 999.
SortKey_zero(x) == Get(x, "daysOnMarket", 0)

\* key=lambda x: x.get("daysOnMarket", 999)
SortKey(x) == Get(x, "daysOnMarket", 999)

\* list.sort is stable: an element goes behind every element whose key is
\* not greater than its own.
RECURSIVE InsertStable(_, _)
InsertStable(sorted, x) ==
    IF sorted = <<>> THEN <<x>>
    ELSE IF SortKey(Last(sorted)) <= SortKey(x)
         THEN Append(sorted, x)
         ELSE Append(InsertStable(Front(sorted), x), Last(sorted))

RECURSIVE SortByDaysOnMarket(_)
SortByDaysOnMarket(seq) ==
    IF seq = <<>> THEN <<>>
    ELSE InsertStable(SortByDaysOnMarket(Front(seq)), Last(seq))

-----------------------------------------------------------------------------
(* Statistics: arithmetic *)

\* A quotient price / area, kept exact as <<numerator, denominator>>.
RECURSIVE SumFrac(_)
SumFrac(fracs) ==
    IF fracs = <<>> THEN <<0, 1>>
    ELSE LET h == Head(fracs)
             t == SumFrac(Tail(fracs))
         IN  <<h[1] * t[2] + t[1] * h[2], h[2] * t[2]>>

\* round(n / d, 2) in hundredths; a tie goes to the even neighbour.
Round2(n, d) ==
    LET q == (100 * n) \div d
        r == (100 * n) % d
    IN  IF 2 * r < d THEN q
        ELSE IF 2 * r > d THEN q + 1
        ELSE IF q % 2 = 0 THEN q ELSE q + 1

\* round(sum(xs) / len(xs), 2)
RoundedMean(fracs) ==
    LET s == SumFrac(fracs) IN Round2(s[1], s[2] * Len(fracs))

RECURSIVE MinOf(_)
MinOf(S) ==
    LET x == CHOOSE y \in S : TRUE IN
    IF S = {x} THEN x
    ELSE LET m == MinOf(S \ {x}) IN IF x < m THEN x ELSE m

RECURSIVE MaxOf(_)
MaxOf(S) ==
    LET x == CHOOSE y \in S : TRUE IN
    IF S = {x} THEN x
    ELSE LET m == MaxOf(S \ {x}) IN IF x > m THEN x ELSE m

\* [p for p in properties if p.get("daysOnMarket", 7) <= 7]
pre_market(props) ==
    SelectSeq(props, LAMBDA p : Get(p, "daysOnMarket", 7) <= 7)

Returned(v) == [raised |-> FALSE, value |-> v]
Raised(e)   == [raised |-> TRUE, exc |-> e]

\* PropertyTrackerService.get_stats of the live service.
get_stats_live(props) ==
    IF props = <<>> THEN Returned(EmptyDict)
    ELSE IF \E i \in 1..Len(props) : Get(props[i], "area", 1) = 0
    THEN Raised("ZeroDivisionError")
    ELSE LET prices_per_sqm ==
                 [i \in 1..Len(props) |->
                     <<Get(props[i], "price", 0), Get(props[i], "area", 1)>>]
             prices == {Get(props[i], "price", 0) : i \in 1..Len(props)}
         IN  Returned(
               [totalFound |-> Len(props),
                avgPricePerSqm |-> RoundedMean(prices_per_sqm),
                preMarketCount |-> Len(pre_market(props)),
                timeAdvantageHours |->
                    IF pre_market(props) # <<>> THEN "48-72" ELSE "-",
                priceRange |-> [min |-> MinOf(prices), max |-> MaxOf(prices)]])

\* The answer is sent; the handler and its locals are gone and the service
\* waits for the next request.  Both services.
Deliver ==
    /\ pc = "done"
    /\ pc' = "idle"
    /\ filters' = EmptyDict
    /\ pending' = <<>>
    /\ all_properties' = <<>>
    /\ calls' = <<>>
    /\ search_result' = Returned(<<>>)
    /\ response' = EmptyDict
    /\ UNCHANGED <<mode, threads, now, ticks, last_scraped, properties, cache_file,
                   CACHED_PROPERTIES>>

-----------------------------------------------------------------------------
(* Live service: data the adapters can meet *)

\* The listings a cache file left by an earlier run holds.  Such a file may
\* predate normalize_property: a record in it can lack daysOnMarket.
CacheOnDisk(a) ==
    CASE a = "sparkasse" ->
           <<Listing("A", 100, 2, LocMitte, "sparkasse", 8),
             ListingNoDays("B", 200, 0, LocLb, "sparkasse")>>
      [] a = "volksbank" ->
           <<Listing("A", 100, 2, LocMitte, "volksbank", 1000),
             Listing("C", 200, 4, LocLb, "volksbank", 999)>>
      [] a = "lbs" ->
           <<ListingNoDays("D", 400, 4, LocMitte, "lbs"),
             Listing("A", 100, 2, LocMitte, "lbs", 0)>>

\* Cache files found at startup: none, one written a second ago (it goes
\* stale when the clock reads cache_timeout - 1), one whose lastScraped is
\* not an ISO timestamp, one that is not JSON.
StartupFiles(a) ==
    {MissingFile,
     JsonFile(IsoStamp(0 - 1), CacheOnDisk(a)),
     JsonFile(BadStamp, CacheOnDisk(a)),
     CorruptFile}

\* A raw item as the source delivers it, and one whose price text cannot be
\* converted.
RawItem(t, p, a, loc, d) ==
    [title |-> t, price |-> p, area |-> a, location |-> loc, daysOnMarket |-> d]

BadItem == [title |-> "X", unparsable |-> "price"]

\* normalize_property: int(...) raises ValueError on an unparsable text;
\* otherwise the record gets the adapter's source tag and the defaults.
normalize_property_raises(raw) == "unparsable" \in DOMAIN raw

normalize_property(a, raw) ==
    [title |-> Get(raw, "title", ""), price |-> Get(raw, "price", 0),
     area |-> Get(raw, "area", 0), location |-> Get(raw, "location", <<>>),
     source |-> a, daysOnMarket |-> Get(raw, "daysOnMarket", 0)]

\* The raw items a live fetch can obtain.  Sparkasse items carry
\* daysOnMarket 0; the Volksbank scrape is a stub that yields no items; LBS
\* yields the API's items, or none from its Selenium fallback.
RawBatches(a) ==
    CASE a = "sparkasse" ->
           {<<RawItem("E", 200, 4, LocLb, 0), BadItem,
              RawItem("A", 100, 2, LocMitte, 0)>>}
      [] a = "volksbank" -> {<<>>}
      [] a = "lbs" ->
           {<<>>,
            <<RawItem("C", 200, 4, LocLb, 7), RawItem("F", 400, 2, LocMitte, 8)>>,
            <<RawItem("C", 200, 4, LocLb, 7), BadItem,
              RawItem("F", 400, 2, LocMitte, 8)>>}

\* The items of raw that normalize, normalized.
Siblings(a, raw) ==
    LET good == SelectSeq(raw, LAMBDA r : ~normalize_property_raises(r))
    IN  [i \in 1..Len(good) |-> normalize_property(a, good[i])]

\* From raw items to the list properties of fetch_properties.  Sparkasse
\* parses and normalizes each item in a try of its own and skips the item on
\* an exception; LBS normalizes in one list comprehension, which an
\* exception leaves as a whole; Volksbank builds the empty list.
scrape(a, raw) ==
    CASE a = "sparkasse" -> Returned(Siblings(a, raw))
      [] a = "volksbank" -> Returned(<<>>)
      [] a = "lbs" ->
           IF \E i \in 1..Len(raw) : normalize_property_raises(raw[i])
           THEN Raised("ValueError")
           ELSE Returned(Siblings(a, raw))

\* The normalized batches a successful live fetch can produce.
LiveBatches(a) ==
    {scrape(a, raw).value : raw \in {r \in RawBatches(a) : ~scrape(a, r).raised}}

SourceLists ==
    {<<"volksbank", "sparkasse">>, <<"zillow", "lbs">>, <<"lbs", "lbs">>,
     <<"zillow">>, <<>>}

LiveFilters == {EmptyDict} \cup {[sources |-> s] : s \in SourceLists}

\* Request bodies on which the live search_all_sources raises before its
\* first iteration: filters.get on None, a for loop over None.
LiveBadBodies == {NoneBody, WithNull("sources")}

TickSteps == {1, cache_timeout - 1}

-----------------------------------------------------------------------------
(* Live service: actions *)

Tick ==
    /\ mode \in {"live", "concurrent"}
    /\ pc # "crashed"
    /\ ticks < MaxTicks
    /\ \E d \in TickSteps : now' = now + d
    /\ ticks' = ticks + 1
    /\ UNCHANGED <<mode, threads, last_scraped, properties, cache_file,
                   CACHED_PROPERTIES, pc, filters, pending, all_properties,
                   calls, search_result, response>>

\* search_properties reads request.json and enters search_all_sources.
StartQuery ==
    /\ mode = "live"
    /\ pc = "idle"
    /\ \E f \in LiveFilters :
          /\ filters' = f
          /\ pending' = Get(f, "sources", DefaultSources)
    /\ all_properties' = <<>>
    /\ calls' = <<>>
    /\ search_result' = Returned(<<>>)
    /\ response' = EmptyDict
    /\ pc' = "fetch"
    /\ UNCHANGED <<mode, threads, now, ticks, last_scraped, properties, cache_file,
                   CACHED_PROPERTIES>>

\* filters = request.json is None, or filters.get("sources", ...) is None:
\* the for statement raises and the handler's except answers 400.
QueryRaises ==
    /\ mode = "live"
    /\ pc = "idle"
    /\ \E body \in LiveBadBodies :
          /\ filters' = body
          /\ LET exc == IF body = NoneBody THEN "AttributeError" ELSE "TypeError"
             IN  /\ search_result' = Raised(exc)
                 /\ response' = [success |-> FALSE, status |-> 400, error |-> exc]
    /\ pending' = <<>>
    /\ all_properties' = <<>>
    /\ calls' = <<>>
    /\ pc' = "done"
    /\ UNCHANGED <<mode, threads, now, ticks, last_scraped, properties, cache_file,
                   CACHED_PROPERTIES>>

InLoop == mode = "live" /\ pc = "fetch" /\ pending # <<>>

Call(src, outcome, ret) == [source |-> src, outcome |-> outcome, ret |-> ret]

\* A call that obtained raw items from its source.
CallOn(src, outcome, ret, raw) ==
    [source |-> src, outcome |-> outcome, ret |-> ret, raw |-> raw]

\* Variant: self.adapters[source] without the membership test; the KeyError
\* leaves search_all_sources and reaches the handler's except.
SkipUnknown_raises ==
    /\ InLoop
    /\ Head(pending) \notin AdapterNames
    /\ search_result' = Raised("KeyError")
    /\ response' = [success |-> FALSE, status |-> 400, error |-> "KeyError"]
    /\ pc' = "done"
    /\ UNCHANGED <<mode, threads, now, ticks, last_scraped, properties, cache_file,
                   CACHED_PROPERTIES, filters, pending, all_properties, calls>>

\* Variant: an unknown tag makes the loop start over on all the adapters.
SkipUnknown_defaultsAll ==
    /\ InLoop
    /\ Head(pending) \notin AdapterNames
    /\ pending' = DefaultSources
    /\ UNCHANGED <<mode, threads, now, ticks, last_scraped, properties, cache_file,
                   CACHED_PROPERTIES, pc, filters, all_properties, calls,
                   search_result, response>>

\* if source in self.adapters: false, the loop moves on.
SkipUnknown ==
    /\ InLoop
    /\ Head(pending) \notin AdapterNames
    /\ pending' = Tail(pending)
    /\ UNCHANGED <<mode, threads, now, ticks, last_scraped, properties, cache_file,
                   CACHED_PROPERTIES, pc, filters, all_properties, calls,
                   search_result, response>>

\* Variant: no try around the call; the exception leaves search_all_sources
\* and reaches the handler's except.
FetchRaises_propagates ==
    /\ InLoop
    /\ Head(pending) \in AdapterNames
    /\ is_cache_valid_raises(last_scraped[Head(pending)])
    /\ search_result' = Raised("ValueError")
    /\ response' = [success |-> FALSE, status |-> 400, error |-> "ValueError"]
    /\ pc' = "done"
    /\ UNCHANGED <<mode, threads, now, ticks, last_scraped, properties, cache_file,
                   CACHED_PROPERTIES, filters, pending, all_properties, calls>>

\* fetch_properties raises out of is_cache_valid; the orchestrator's except
\* logs it and the loop moves on.
FetchRaises ==
    /\ InLoop
    /\ Head(pending) \in AdapterNames
    /\ is_cache_valid_raises(last_scraped[Head(pending)])
    /\ calls' = Append(calls, Call(Head(pending), "raised", <<>>))
    /\ pending' = Tail(pending)
    /\ UNCHANGED <<mode, threads, now, ticks, last_scraped, properties, cache_file,
                   CACHED_PROPERTIES, pc, filters, all_properties,
                   search_result, response>>

\* Variant: a cache hit renews the timestamp.
FetchCached_restamps ==
    /\ InLoop
    /\ LET a == Head(pending) IN
          /\ a \in AdapterNames
          /\ ~is_cache_valid_raises(last_scraped[a])
          /\ is_cache_valid(last_scraped[a], now)
          /\ all_properties' = all_properties \o properties[a]
          /\ calls' = Append(calls, Call(a, "cached", properties[a]))
          /\ last_scraped' = [last_scraped EXCEPT ![a] = IsoStamp(now)]
    /\ pending' = Tail(pending)
    /\ UNCHANGED <<mode, threads, now, ticks, properties, cache_file,
                   CACHED_PROPERTIES, pc, filters, search_result, response>>

\* fetch_properties with a fresh cache: return self.properties.
FetchCached ==
    /\ InLoop
    /\ LET a == Head(pending) IN
          /\ a \in AdapterNames
          /\ ~is_cache_valid_raises(last_scraped[a])
          /\ is_cache_valid(last_scraped[a], now)
          /\ all_properties' = all_properties \o properties[a]
          /\ calls' = Append(calls, Call(a, "cached", properties[a]))
    /\ pending' = Tail(pending)
    /\ UNCHANGED <<mode, threads, now, ticks, last_scraped, properties, cache_file,
                   CACHED_PROPERTIES, pc, filters, search_result, response>>

Stale(a) ==
    /\ a \in AdapterNames
    /\ ~is_cache_valid_raises(last_scraped[a])
    /\ ~is_cache_valid(last_scraped[a], now)

\* Stale cache, the live fetch succeeds: the cache is replaced, stamped and
\* saved, the new batch is returned.
FetchLiveOk ==
    /\ InLoop
    /\ LET a == Head(pending) IN
          /\ Stale(a)
          /\ \E raw \in RawBatches(a) :
                /\ ~scrape(a, raw).raised
                /\ LET batch == scrape(a, raw).value IN
                      /\ properties' = [properties EXCEPT ![a] = batch]
                      /\ last_scraped' = [last_scraped EXCEPT ![a] = IsoStamp(now)]
                      /\ cache_file' =
                             [cache_file EXCEPT ![a] = JsonFile(IsoStamp(now), batch)]
                      /\ all_properties' = all_properties \o batch
                      /\ calls' = Append(calls, CallOn(a, "live", batch, raw))
    /\ pending' = Tail(pending)
    /\ UNCHANGED <<mode, threads, now, ticks, CACHED_PROPERTIES, pc, filters,
                   search_result, response>>

\* Variant: the except branch stamps the cache before returning it.
FetchLiveFails_stamps ==
    /\ InLoop
    /\ LET a == Head(pending) IN
          /\ Stale(a)
          /\ all_properties' = all_properties \o properties[a]
          /\ calls' = Append(calls, Call(a, "fallback", properties[a]))
          /\ last_scraped' = [last_scraped EXCEPT ![a] = IsoStamp(now)]
    /\ pending' = Tail(pending)
    /\ UNCHANGED <<mode, threads, now, ticks, properties, cache_file,
                   CACHED_PROPERTIES, pc, filters, search_result, response>>

\* Stale cache, the live fetch fails inside the try: return self.properties.
FetchLiveFails ==
    /\ InLoop
    /\ LET a == Head(pending) IN
          /\ Stale(a)
          /\ all_properties' = all_properties \o properties[a]
          /\ calls' = Append(calls, Call(a, "fallback", properties[a]))
    /\ pending' = Tail(pending)
    /\ UNCHANGED <<mode, threads, now, ticks, last_scraped, properties, cache_file,
                   CACHED_PROPERTIES, pc, filters, search_result, response>>

\* Stale cache, the items arrive but building the list raises: the except
\* branch returns self.properties.
FetchItemFails ==
    /\ InLoop
    /\ LET a == Head(pending) IN
          /\ Stale(a)
          /\ \E raw \in RawBatches(a) :
                /\ scrape(a, raw).raised
                /\ calls' = Append(calls, CallOn(a, "fallback", properties[a], raw))
          /\ all_properties' = all_properties \o properties[a]
    /\ pending' = Tail(pending)
    /\ UNCHANGED <<mode, threads, now, ticks, last_scraped, properties, cache_file,
                   CACHED_PROPERTIES, pc, filters, search_result, response>>

\* Stale cache, the live fetch succeeds but save_cache raises: the attributes
\* are already assigned, the file was opened for writing (truncated) or could
\* not be opened, and the except branch returns self.properties.
FetchSaveFails ==
    /\ InLoop
    /\ LET a == Head(pending) IN
          /\ Stale(a)
          /\ \E raw \in RawBatches(a) :
                /\ ~scrape(a, raw).raised
                /\ LET batch == scrape(a, raw).value IN
                      /\ properties' = [properties EXCEPT ![a] = batch]
                      /\ last_scraped' = [last_scraped EXCEPT ![a] = IsoStamp(now)]
                      /\ all_properties' = all_properties \o batch
                      /\ calls' = Append(calls, CallOn(a, "savefail", batch, raw))
          /\ \E f \in {cache_file[a], CorruptFile} :
                cache_file' = [cache_file EXCEPT ![a] = f]
    /\ pending' = Tail(pending)
    /\ UNCHANGED <<mode, threads, now, ticks, CACHED_PROPERTIES, pc, filters,
                   search_result, response>>

\* Variant: when get_stats fails the handler still answers with success and
\* the listings, without statistics.
Respond_partial(result, stats) ==
    IF stats.raised
    THEN [success |-> TRUE, status |-> 200, properties |-> result]
    ELSE [success |-> TRUE, status |-> 200, properties |-> result,
          stats |-> stats.value]

\* The rest of search_all_sources (deduplicate, sort, return) and of the
\* handler (get_stats, jsonify; any exception becomes the 400 answer).
Respond(result, stats) ==
    IF stats.raised
    THEN [success |-> FALSE, status |-> 400, error |-> stats.exc]
    ELSE [success |-> TRUE, status |-> 200, properties |-> result,
          stats |-> stats.value]

\* Variant: the merged list shares storage with the adapters' lists, and the
\* sort reorders them too.
Finish_sortsCaches ==
    /\ mode = "live"
    /\ pc = "fetch"
    /\ pending = <<>>
    /\ LET unique_props == SortByDaysOnMarket(Dedup(all_properties, {})) IN
          /\ search_result' = Returned(unique_props)
          /\ response' = Respond(unique_props, get_stats_live(unique_props))
    /\ properties' = [a \in AdapterNames |-> SortByDaysOnMarket(properties[a])]
    /\ pc' = "done"
    /\ UNCHANGED <<mode, threads, now, ticks, last_scraped, cache_file,
                   CACHED_PROPERTIES, filters, pending, all_properties, calls>>

Finish ==
    /\ mode = "live"
    /\ pc = "fetch"
    /\ pending = <<>>
    /\ LET unique_props == SortByDaysOnMarket(Dedup(all_properties, {})) IN
          /\ search_result' = Returned(unique_props)
          /\ response' = Respond(unique_props, get_stats_live(unique_props))
    /\ pc' = "done"
    /\ UNCHANGED <<mode, threads, now, ticks, last_scraped, properties, cache_file,
                   CACHED_PROPERTIES, filters, pending, all_properties, calls>>

-----------------------------------------------------------------------------
(* Cache-only service: filter and statistics *)

IsSpace(c) == c \in {" ", "\t", "\n"}

\* str.split(): the maximal runs of non-whitespace characters.
RECURSIVE SplitFrom(_, _, _)
SplitFrom(s, cur, acc) ==
    IF s = <<>> THEN (IF cur = <<>> THEN acc ELSE Append(acc, cur))
    ELSE IF IsSpace(Head(s))
         THEN SplitFrom(Tail(s), <<>>, IF cur = <<>> THEN acc ELSE Append(acc, cur))
         ELSE SplitFrom(Tail(s), Append(cur, Head(s)), acc)

split(s) == SplitFrom(s, <<>>, <<>>)

startswith(s, prefix) ==
    /\ Len(prefix) <= Len(s)
    /\ SubSeq(s, 1, Len(prefix)) = prefix

\* Variant: a missing minArea falls back to a positive minimum instead of 0.
Keeps_minAreaDefault(prop, f) ==
    LET minPrice == Get(f, "minPrice", 0)
        minArea  == Get(f, "minArea", 1)
        region   == Get(f, "region", <<>>)
        sources  == Get(f, "sources", DefaultSources)
        postal_parts == split(Get(prop, "location", <<>>))
    IN  /\ ~(Get(prop, "price", 0) < minPrice)
        /\ ~("maxPrice" \in DOMAIN f /\ Get(prop, "price", 0) > f.maxPrice)
        /\ ~(Get(prop, "area", 0) < minArea)
        /\ prop.source \in Range(sources)
        /\ (region # <<>> /\ postal_parts # <<>>)
               => startswith(Last(postal_parts), region)

\* The body of the loop over CACHED_PROPERTIES: TRUE when no continue is
\* taken and prop is appended to filtered.  maxPrice defaults to
\* float('inf'), which no price exceeds.
Keeps(prop, f) ==
    LET minPrice == Get(f, "minPrice", 0)
        minArea  == Get(f, "minArea", 0)
        region   == Get(f, "region", <<>>)
        sources  == Get(f, "sources", DefaultSources)
        postal_parts == split(Get(prop, "location", <<>>))
    IN  /\ ~(Get(prop, "price", 0) < minPrice)
        /\ ~("maxPrice" \in DOMAIN f /\ Get(prop, "price", 0) > f.maxPrice)
        /\ ~(Get(prop, "area", 0) < minArea)
        /\ prop.source \in Range(sources)
        /\ (region # <<>> /\ postal_parts # <<>>)
               => startswith(Last(postal_parts), region)

\* The body of the loop raises TypeError on prop: a comparison with None, or
\* a membership test in None, is reached before any continue.
KeepsRaises(prop, f) ==
    LET price == Get(prop, "price", 0)
        passesMinPrice == ~(price < Get(f, "minPrice", 0))
        passesMaxPrice == ~("maxPrice" \in DOMAIN f /\ price > f.maxPrice)
        passesMinArea  == ~(Get(prop, "area", 0) < Get(f, "minArea", 0))
    IN  \/ IsNone(f, "minPrice")
        \/ passesMinPrice /\ IsNone(f, "maxPrice")
        \/ passesMinPrice /\ passesMaxPrice /\ IsNone(f, "minArea")
        \/ passesMinPrice /\ passesMaxPrice /\ passesMinArea
              /\ IsNone(f, "sources")

search_all_sources_cached_raises(f, catalog) ==
    \E i \in 1..Len(catalog) : KeepsRaises(catalog[i], f)

\* PropertyTrackerService.search_all_sources of the cache-only service, when
\* it does not raise.
search_all_sources_cached(f, catalog) ==
    SortByDaysOnMarket(SelectSeq(catalog, LAMBDA prop : Keeps(prop, f)))

\* PropertyTrackerService.get_stats of the cache-only service.
get_stats_cached(props) ==
    IF props = <<>>
    THEN Returned([totalFound |-> 0, avgPricePerSqm |-> 0, preMarketCount |-> 0,
                   timeAdvantageHours |-> "-",
                   priceRange |-> [min |-> 0, max |-> 0]])
    ELSE LET with_area == SelectSeq(props, LAMBDA p : Get(p, "area", 0) > 0)
             prices_per_sqm ==
                 [i \in 1..Len(with_area) |->
                     <<Get(with_area[i], "price", 0), Get(with_area[i], "area", 1)>>]
             prices == {Get(props[i], "price", 0) : i \in 1..Len(props)}
         IN  Returned(
               [totalFound |-> Len(props),
                avgPricePerSqm |->
                    IF with_area # <<>> THEN RoundedMean(prices_per_sqm) ELSE 0,
                preMarketCount |-> Len(pre_market(props)),
                timeAdvantageHours |->
                    IF pre_market(props) # <<>> THEN "48-72" ELSE "-",
                priceRange |-> [min |-> MinOf(prices), max |-> MaxOf(prices)]])

\* Records a catalog can hold.
CatalogPool ==
    {Listing("A", 200, 4, LocMitte, "sparkasse", 3),
     Listing("B", 100, 0, LocEmpty, "volksbank", 8),
     ListingNoDays("C", 400, 2, LocLb, "lbs"),
     Listing("D", 200, 2, LocBlank, "lbs", 999),
     Listing("E", 100, 4, LocTrailing, "immowelt", 1000)}

\* Catalogs: no record twice (the catalog is deduplicated beforehand).
Catalogs ==
    {c \in UNION {[1..n -> CatalogPool] : n \in 0..MaxCatalog} :
        \A i, j \in 1..Len(c) : c[i] = c[j] => i = j}

CachedFilters ==
    {a @@ b @@ c @@ d @@ e :
        a \in {EmptyDict, [minPrice |-> 200]},
        b \in {EmptyDict, [maxPrice |-> 200]},
        c \in {EmptyDict, [minArea |-> 4]},
        d \in {EmptyDict, [region |-> <<>>], [region |-> <<"7", "0">>],
               [region |-> <<"7", "1">>]},
        e \in {EmptyDict, [sources |-> <<"lbs">>],
               [sources |-> <<"sparkasse", "immowelt">>]}}

\* Request bodies with a null: the body itself, one criterion, or maxPrice
\* next to a minPrice that some records do not reach.
CachedNullBodies ==
    {NoneBody}
        \cup {WithNull(k) :
                  k \in {"minPrice", "maxPrice", "minArea", "region", "sources"}}
        \cup {[minPrice |-> 200] @@ WithNull("maxPrice")}

\* Variant: the sort is applied to the catalog itself.
Search_sortsCatalog ==
    /\ mode = "cached"
    /\ pc = "idle"
    /\ \E body \in CachedFilters \cup CachedNullBodies :
          LET f == IF body = NoneBody THEN EmptyDict ELSE body
              filtered == search_all_sources_cached(f, CACHED_PROPERTIES)
          IN  /\ filters' = f
              /\ IF search_all_sources_cached_raises(f, CACHED_PROPERTIES)
                 THEN /\ search_result' = Raised("TypeError")
                      /\ response' = [success |-> FALSE, status |-> 400,
                                      error |-> "TypeError"]
                 ELSE /\ search_result' = Returned(filtered)
                      /\ response' =
                             Respond(filtered, get_stats_cached(filtered))
    /\ CACHED_PROPERTIES' = SortByDaysOnMarket(CACHED_PROPERTIES)
    /\ pc' = "done"
    /\ UNCHANGED mode
    /\ UNCHANGED threads
    /\ UNCHANGED liveVars

\* search_properties of the cache-only service: request.json or {}, the
\* filter, the statistics, the answer; any exception becomes the 400 answer.
Search ==
    /\ mode = "cached"
    /\ pc = "idle"
    /\ \E body \in CachedFilters \cup CachedNullBodies :
          LET f == IF body = NoneBody THEN EmptyDict ELSE body
              filtered == search_all_sources_cached(f, CACHED_PROPERTIES)
          IN  /\ filters' = f
              /\ IF search_all_sources_cached_raises(f, CACHED_PROPERTIES)
                 THEN /\ search_result' = Raised("TypeError")
                      /\ response' = [success |-> FALSE, status |-> 400,
                                      error |-> "TypeError"]
                 ELSE /\ search_result' = Returned(filtered)
                      /\ response' =
                             Respond(filtered, get_stats_cached(filtered))
    /\ pc' = "done"
    /\ UNCHANGED <<mode, threads, CACHED_PROPERTIES>>
    /\ UNCHANGED liveVars

InitCached ==
    /\ mode = "cached"
    /\ now = 0
    /\ ticks = 0
    /\ cache_file = EmptyDict
    /\ last_scraped = EmptyDict
    /\ properties = EmptyDict
    /\ CACHED_PROPERTIES \in Catalogs
    /\ pc = "idle"
    /\ filters = EmptyDict
    /\ pending = <<>>
    /\ all_properties = <<>>
    /\ calls = <<>>
    /\ search_result = Returned(<<>>)
    /\ response = EmptyDict
    /\ threads = EmptyDict

-----------------------------------------------------------------------------
(* Live service, two requests served by two threads of the Flask server:
   both call fetch_properties of the same adapter object; the statements of
   fetch_properties interleave, nothing locks them *)

Threads == {1, 2}

ConcAdapter == "lbs"

Thread(p, batch, stamped, ret) ==
    [pc |-> p, local |-> batch, stamped |-> stamped, ret |-> ret]

ThreadGoes(t, th) ==
    /\ threads' = [threads EXCEPT ![t] = th]
    /\ UNCHANGED <<mode, now, ticks, CACHED_PROPERTIES, pc, filters, pending,
                   all_properties, calls, search_result, response>>

\* if self.is_cache_valid(): return self.properties; otherwise the thread
\* enters the try block.
ThreadChecksCache ==
    /\ mode = "concurrent"
    /\ \E t \in Threads :
          /\ threads[t].pc = "start"
          /\ IF is_cache_valid(last_scraped[ConcAdapter], now)
             THEN ThreadGoes(t, Thread("done", <<>>, NoneStamp,
                                       properties[ConcAdapter]))
             ELSE ThreadGoes(t, Thread("fetching", <<>>, NoneStamp, <<>>))
    /\ UNCHANGED <<last_scraped, properties, cache_file>>

\* The request to the source returns and the items are normalized into the
\* local list properties.
ThreadFetches ==
    /\ mode = "concurrent"
    /\ \E t \in Threads :
          /\ threads[t].pc = "fetching"
          /\ \E batch \in LiveBatches(ConcAdapter) :
                ThreadGoes(t, Thread("fetched", batch, NoneStamp, <<>>))
    /\ UNCHANGED <<last_scraped, properties, cache_file>>

\* The request raises: except returns self.properties.
ThreadFetchFails ==
    /\ mode = "concurrent"
    /\ \E t \in Threads :
          /\ threads[t].pc = "fetching"
          /\ ThreadGoes(t, Thread("done", <<>>, NoneStamp,
                                  properties[ConcAdapter]))
    /\ UNCHANGED <<last_scraped, properties, cache_file>>

\* self.properties = properties
ThreadAssignsProperties ==
    /\ mode = "concurrent"
    /\ \E t \in Threads :
          /\ threads[t].pc = "fetched"
          /\ properties' = [properties EXCEPT ![ConcAdapter] = threads[t].local]
          /\ ThreadGoes(t, [threads[t] EXCEPT !.pc = "assigned"])
    /\ UNCHANGED <<last_scraped, cache_file>>

\* self.last_scraped = datetime.now().isoformat()
ThreadStamps ==
    /\ mode = "concurrent"
    /\ \E t \in Threads :
          /\ threads[t].pc = "assigned"
          /\ last_scraped' = [last_scraped EXCEPT ![ConcAdapter] = IsoStamp(now)]
          /\ ThreadGoes(t, [threads[t] EXCEPT !.pc = "stamped",
                                              !.stamped = IsoStamp(now)])
    /\ UNCHANGED <<properties, cache_file>>

\* self.save_cache(), which dumps the attributes as they are now, and
\* return properties.
ThreadSaves ==
    /\ mode = "concurrent"
    /\ \E t \in Threads :
          /\ threads[t].pc = "stamped"
          /\ cache_file' =
                 [cache_file EXCEPT ![ConcAdapter] =
                     JsonFile(last_scraped[ConcAdapter], properties[ConcAdapter])]
          /\ ThreadGoes(t, [threads[t] EXCEPT !.pc = "done",
                                              !.ret = threads[t].local])
    /\ UNCHANGED <<last_scraped, properties>>

\* The adapters as constructed at import, then two requests arrive.
InitConcurrent ==
    /\ mode = "concurrent"
    /\ now = 0
    /\ ticks = 0
    /\ cache_file \in [AdapterNames -> UNION {StartupFiles(a) : a \in AdapterNames}]
    /\ \A a \in AdapterNames :
          /\ cache_file[a] \in StartupFiles(a)
          /\ cache_file[a] # CorruptFile
          /\ a # ConcAdapter => cache_file[a] = MissingFile
    /\ last_scraped = [a \in AdapterNames |-> AdapterInit(cache_file[a]).last_scraped]
    /\ properties = [a \in AdapterNames |-> AdapterInit(cache_file[a]).properties]
    /\ CACHED_PROPERTIES = <<>>
    /\ pc = "threads"
    /\ filters = EmptyDict
    /\ pending = <<>>
    /\ all_properties = <<>>
    /\ calls = <<>>
    /\ search_result = Returned(<<>>)
    /\ response = EmptyDict
    /\ threads = [t \in Threads |-> Thread("start", <<>>, NoneStamp, <<>>)]

-----------------------------------------------------------------------------
(* Specification *)

\* service = PropertyTrackerService() at import: the three adapters are
\* constructed, each loading its cache file; an exception out of a constructor
\* stops the import and the process serves nothing.
InitLive ==
    /\ mode = "live"
    /\ now = 0
    /\ ticks = 0
    /\ cache_file \in [AdapterNames -> UNION {StartupFiles(a) : a \in AdapterNames}]
    /\ \A a \in AdapterNames : cache_file[a] \in StartupFiles(a)
    /\ last_scraped = [a \in AdapterNames |-> AdapterInit(cache_file[a]).last_scraped]
    /\ properties = [a \in AdapterNames |-> AdapterInit(cache_file[a]).properties]
    /\ CACHED_PROPERTIES = <<>>
    /\ pc = IF \E a \in AdapterNames : load_cache_raises(cache_file[a])
            THEN "crashed"
            ELSE "idle"
    /\ filters = EmptyDict
    /\ pending = <<>>
    /\ all_properties = <<>>
    /\ calls = <<>>
    /\ search_result = Returned(<<>>)
    /\ response = EmptyDict
    /\ threads = EmptyDict

Init == InitLive \/ InitCached \/ InitConcurrent

Next ==
    \/ Tick
    \/ StartQuery
    \/ QueryRaises
    \/ SkipUnknown
    \/ FetchRaises
    \/ FetchCached
    \/ FetchLiveOk
    \/ FetchLiveFails
    \/ FetchItemFails
    \/ FetchSaveFails
    \/ Finish
    \/ Search
    \/ Deliver
    \/ ThreadChecksCache
    \/ ThreadFetches
    \/ ThreadFetchFails
    \/ ThreadAssignsProperties
    \/ ThreadStamps
    \/ ThreadSaves

Spec == Init /\ [][Next]_vars

-----------------------------------------------------------------------------
(* Properties *)

Answered == pc = "done" /\ ~search_result.raised

Listings == search_result.value

\* The known tags of the requested source list, in the order given.
Selected ==
    SelectSeq(Get(filters, "sources", DefaultSources),
              LAMBDA s : s \in AdapterNames)

SourcesOf(cs) == [i \in 1..Len(cs) |-> cs[i].source]

ReturnsOf(cs) == [i \in 1..Len(cs) |-> cs[i].ret]

\* C1: in the live orchestrator an exception raised by one adapter's
\* fetch_properties does not leave search_all_sources and does not stop the
\* loop: at every point of a query the adapters called so far followed by
\* the known tags still pending are exactly the selected adapters, and the
\* merged input is the concatenation of what the calls returned.  (A body
\* that is null or whose source list is null never reaches an adapter.)
C1_AdapterFailureIsolated ==
    (mode = "live" /\ pc \in {"fetch", "done"} /\ filters \notin LiveBadBodies) =>
        /\ ~search_result.raised
        /\ SourcesOf(calls)
               \o SelectSeq(pending, LAMBDA s : s \in AdapterNames) = Selected
        /\ all_properties = Concat(ReturnsOf(calls))
        /\ pc = "done" => pending = <<>>

\* A finished query over all three adapters in which the first call raised,
\* the second fell back to a non-empty cache and the third fetched live.
C1_Witness ==
    /\ mode = "live"
    /\ pc = "done"
    /\ Len(calls) = 3
    /\ calls[1].outcome = "raised"
    /\ calls[2].outcome = "fallback" /\ calls[2].ret # <<>>
    /\ calls[3].outcome = "live" /\ calls[3].ret # <<>>
    /\ all_properties = calls[2].ret \o calls[3].ret

Triplet(r) == <<r.title, r.price, r.location>>

FirstIndex(seq, r) ==
    CHOOSE k \in 1..Len(seq) : seq[k] = r /\ \A m \in 1..(k - 1) : seq[m] # r

\* C2: the live result holds no two records with the same (title, price,
\* location); every triplet of the merged input is in it exactly once, as
\* the first record of the merge order that carries it; nothing else is.
C2_DedupFirstWins ==
    (mode = "live" /\ Answered) =>
        /\ \A i, j \in 1..Len(Listings) :
              Triplet(Listings[i]) = Triplet(Listings[j]) => i = j
        /\ \A k \in 1..Len(all_properties) :
              \E i \in 1..Len(Listings) :
                 /\ Triplet(Listings[i]) = Triplet(all_properties[k])
                 /\ \E f \in 1..k :
                       /\ Listings[i] = all_properties[f]
                       /\ \A m \in 1..(f - 1) :
                             Triplet(all_properties[m]) # Triplet(all_properties[k])
        /\ \A i \in 1..Len(Listings) : Listings[i] \in Range(all_properties)

\* A merged input in which a later record of another source repeats an
\* earlier triplet, and the earlier one is what the result holds.
C2_Witness ==
    /\ mode = "live"
    /\ Answered
    /\ \E k1, k2 \in 1..Len(all_properties) :
          /\ k1 < k2
          /\ Triplet(all_properties[k1]) = Triplet(all_properties[k2])
          /\ all_properties[k1].source # all_properties[k2].source
          /\ \A m \in 1..(k1 - 1) :
                Triplet(all_properties[m]) # Triplet(all_properties[k1])
          /\ all_properties[k1] \in Range(Listings)
          /\ all_properties[k2] \notin Range(Listings)

HasDays(r) == "daysOnMarket" \in DOMAIN r

DisplayDays(r) == IF HasDays(r) THEN r.daysOnMarket ELSE 999

\* The sequence the sort started from: the merged input (live) or the
\* catalog (cache-only).
SortBase == IF mode = "live" THEN all_properties ELSE CACHED_PROPERTIES

\* C3: in both services the returned listings are non-decreasing in
\* daysOnMarket with an absent value read as 999, and records with equal
\* key keep the relative order they had before the sort.
C3_SortedStable ==
    Answered =>
        \A i, j \in 1..Len(Listings) :
            i < j =>
               /\ DisplayDays(Listings[i]) <= DisplayDays(Listings[j])
               /\ DisplayDays(Listings[i]) = DisplayDays(Listings[j])
                     => FirstIndex(SortBase, Listings[i])
                            < FirstIndex(SortBase, Listings[j])

\* A result in which a record without daysOnMarket stands behind one with a
\* value between 8 and 998 and ahead of one whose value is exactly 999.
C3_Witness ==
    /\ Answered
    /\ \E i, j, k \in 1..Len(Listings) :
          /\ i < j /\ j < k
          /\ HasDays(Listings[i])
          /\ Listings[i].daysOnMarket > 7 /\ Listings[i].daysOnMarket < 999
          /\ ~HasDays(Listings[j])
          /\ HasDays(Listings[k]) /\ Listings[k].daysOnMarket = 999

\* C4: every result the query boundary returns carries stats with a
\* totalFound equal to the number of returned listings.
C4_TotalFoundIsLength ==
    (pc = "done" /\ response.success) =>
        /\ "totalFound" \in DOMAIN response.stats
        /\ response.stats.totalFound = Len(response.properties)

ZeroStatistics ==
    [totalFound |-> 0, avgPricePerSqm |-> 0, preMarketCount |-> 0,
     timeAdvantageHours |-> "-", priceRange |-> [min |-> 0, max |-> 0]]

\* C5: for an empty listings sequence get_stats returns the zero-valued
\* statistics record and raises nothing, in both services.
C5_EmptyStatsAreZero ==
    (Answered /\ Listings = <<>>) =>
        /\ response.success
        /\ response.stats = ZeroStatistics

\* The mean of price / area over the records with positive area, rounded to
\* hundredths; 0 when there is no such record.
AreaMean(seq) ==
    LET pos   == SelectSeq(seq, LAMBDA r : r.area > 0)
        fracs == [i \in 1..Len(pos) |-> <<pos[i].price, pos[i].area>>]
    IN  IF pos = <<>> THEN 0 ELSE RoundedMean(fracs)

\* C6: for a non-empty listings sequence get_stats returns avgPricePerSqm as
\* the mean of price / area over the records with area > 0 (0 when there is
\* none); a record with area 0 causes no error.
C6_AvgSkipsZeroArea ==
    (Answered /\ Listings # <<>>) =>
        /\ response.success
        /\ response.stats.avgPricePerSqm = AreaMean(Listings)

\* C7: for every listings sequence get_stats returns preMarketCount, the
\* number of records whose daysOnMarket is at most 7 or absent.
C7_PreMarketCount ==
    Answered =>
        /\ response.success
        /\ "preMarketCount" \in DOMAIN response.stats
        /\ response.stats.preMarketCount =
              Cardinality({i \in 1..Len(Listings) :
                              ~HasDays(Listings[i])
                                 \/ Listings[i].daysOnMarket <= 7})

\* C8: for every listings sequence the stats record carries a timeAdvantage
\* label that is "48-72" when its preMarketCount is positive and "-" when
\* it is not.
C8_TimeAdvantageLabel ==
    Answered =>
        /\ response.success
        /\ {"timeAdvantageHours", "preMarketCount"} \subseteq DOMAIN response.stats
        /\ response.stats.timeAdvantageHours =
              IF response.stats.preMarketCount > 0 THEN "48-72" ELSE "-"

\* C9: for a non-empty listings sequence get_stats returns priceRange as the
\* least and the greatest price over all records, records with area 0
\* included, so every returned listing's price lies within it.
C9_PriceRange ==
    (Answered /\ Listings # <<>>) =>
        /\ response.success
        /\ \A i \in 1..Len(Listings) :
              /\ response.stats.priceRange.min <= Listings[i].price
              /\ Listings[i].price <= response.stats.priceRange.max
        /\ \E i \in 1..Len(Listings) :
              response.stats.priceRange.min = Listings[i].price
        /\ \E i \in 1..Len(Listings) :
              response.stats.priceRange.max = Listings[i].price

\* The criteria as the specification states them; with a region prefix the
\* last whitespace-delimited token of the location must exist and start
\* with it.
Satisfies(r, f) ==
    /\ "minPrice" \in DOMAIN f => f.minPrice <= r.price
    /\ "maxPrice" \in DOMAIN f => r.price <= f.maxPrice
    /\ "minArea" \in DOMAIN f => r.area >= f.minArea
    /\ r.source \in Range(Get(f, "sources", DefaultSources))
    /\ Get(f, "region", <<>>) # <<>> =>
          /\ split(r.location) # <<>>
          /\ startswith(Last(split(r.location)), f.region)

\* C10: in the cache-only service the returned records are exactly the
\* catalog records that satisfy the price bounds, the minimum area, the
\* source set and the region rule.
C10_FilterExact ==
    (mode = "cached" /\ Answered) =>
        Range(Listings) = {r \in Range(CACHED_PROPERTIES) : Satisfies(r, filters)}

\* C11: in the cache-only service, with a non-empty region prefix, every
\* returned record has a location whose last whitespace-delimited token
\* exists and starts with the prefix.
C11_RegionPrefix ==
    (mode = "cached" /\ Answered /\ Get(filters, "region", <<>>) # <<>>) =>
        \A i \in 1..Len(Listings) :
            /\ split(Listings[i].location) # <<>>
            /\ startswith(Last(split(Listings[i].location)), filters.region)

Occurrences(seq, r) == Cardinality({i \in 1..Len(seq) : seq[i] = r})

\* C12 as stated: a query with empty criteria returns every catalog record,
\* each exactly once.
C12_EmptyCriteriaReturnAll ==
    (mode = "cached" /\ Answered /\ DOMAIN filters = {}) =>
        \A r \in Range(CACHED_PROPERTIES) : Occurrences(Listings, r) = 1

\* C12 as amended: only the criteria present in the query constrain the
\* result, an absent source set standing for the known sources: every
\* catalog record the present criteria accept is returned exactly once, and
\* a query with empty criteria returns, exactly once, every catalog record
\* whose source is a known source.
C12_AbsentMeansNoConstraint ==
    (mode = "cached" /\ Answered) =>
        /\ \A r \in Range(CACHED_PROPERTIES) :
              Satisfies(r, filters) => Occurrences(Listings, r) = 1
        /\ DOMAIN filters = {} =>
              \A r \in Range(CACHED_PROPERTIES) :
                  r.source \in AdapterNames => Occurrences(Listings, r) = 1

\* An empty query over a catalog holding a record with area 0 and a record
\* of an unknown source: the first is returned, the second is not.
C12_Witness ==
    /\ mode = "cached"
    /\ Answered
    /\ DOMAIN filters = {}
    /\ \E r \in Range(CACHED_PROPERTIES) : r.area = 0 /\ r \in Range(Listings)
    /\ \E r \in Range(CACHED_PROPERTIES) :
          r.source \notin AdapterNames /\ r \notin Range(Listings)

\* The staleness rule as stated: last_scraped is unset, or the timeout has
\* elapsed since it.
StaleByRule(ls, t) ==
    \/ ls.kind = "none"
    \/ ls.kind = "iso" /\ t - ls.t >= cache_timeout

\* A step in which fetch_properties of some adapter is called and returns or
\* raises.
FetchStep == mode = "live" /\ Len(calls') = Len(calls) + 1

LiveOutcomes == {"live", "fallback", "savefail"}

\* C13: a call of fetch_properties starts a live fetch exactly when the cache
\* is stale (last_scraped unset, or now - last_scraped >= 3600, the boundary
\* included); last_scraped changes only in a live fetch, which stamps it with
\* the current time, so no live fetch starts before a refresh is 3600 s old.
C13_LiveFetchIffStale ==
    [][/\ FetchStep =>
            LET c == Last(calls') IN
               /\ c.outcome \in LiveOutcomes
                     <=> StaleByRule(last_scraped[c.source], now)
               /\ c.outcome = "live"
                     => last_scraped'[c.source] = IsoStamp(now)
       /\ mode = "live" =>
            \A a \in AdapterNames :
               last_scraped'[a] # last_scraped[a] =>
                  /\ FetchStep
                  /\ Last(calls').source = a
                  /\ Last(calls').outcome \in LiveOutcomes
                  /\ last_scraped'[a] = IsoStamp(now)
                  /\ now' = now
       /\ mode = "live" =>
            \A a \in AdapterNames :
               last_scraped[a].kind = "iso" => last_scraped[a].t <= now]_vars

\* A live fetch was started (and failed) when the cache was exactly 3600 s
\* old.
C13_Witness ==
    /\ mode = "live"
    /\ calls # <<>>
    /\ LET c == Last(calls) IN
          /\ c.outcome = "fallback"
          /\ last_scraped[c.source].kind = "iso"
          /\ now - last_scraped[c.source].t = cache_timeout

\* C14: a call of fetch_properties on a fresh cache returns self.properties
\* and changes neither properties, last_scraped nor the cache file; it
\* returns what the preceding call of the same adapter returned from the
\* same cache contents.
C14_FreshCacheServedAsIs ==
    [][(FetchStep /\ Last(calls').outcome = "cached") =>
          LET c == Last(calls') IN
             /\ c.ret = properties[c.source]
             /\ UNCHANGED <<properties, last_scraped, cache_file>>
             /\ \A i \in 1..Len(calls) :
                   (/\ calls[i].source = c.source
                    /\ calls[i].outcome \in {"cached", "live", "savefail"}
                    /\ \A j \in (i + 1)..Len(calls) :
                          ~(/\ calls[j].source = c.source
                            /\ calls[j].outcome \in {"live", "savefail"}))
                   => calls[i].ret = c.ret]_vars

\* The same adapter called twice in one query, both times on a fresh,
\* non-empty cache.
C14_Witness ==
    /\ mode = "live"
    /\ Len(calls) = 2
    /\ calls[1].source = calls[2].source
    /\ calls[1].outcome = "cached"
    /\ calls[2].outcome = "cached"
    /\ calls[2].ret # <<>>
    /\ calls[1].ret = calls[2].ret

\* C15: when the cache is stale and the live fetch fails, fetch_properties
\* returns the listings cached before the call without raising, and
\* properties, last_scraped and the cache file are unchanged, so the cache is
\* still stale.
C15_FailedFetchKeepsCache ==
    [][(FetchStep /\ Last(calls').outcome = "fallback") =>
          LET c == Last(calls') IN
             /\ c.ret = properties[c.source]
             /\ all_properties' = all_properties \o properties[c.source]
             /\ UNCHANGED <<properties, last_scraped, cache_file>>
             /\ UNCHANGED <<search_result, response, pc>>
             /\ StaleByRule(last_scraped'[c.source], now')]_vars

\* A failed live fetch answered with a non-empty stale cache, and the query
\* succeeded.
C15_Witness ==
    /\ mode = "live"
    /\ pc = "done"
    /\ calls # <<>>
    /\ Last(calls).outcome = "fallback"
    /\ Last(calls).ret # <<>>
    /\ Last(calls).ret = properties[Last(calls).source]
    /\ StaleByRule(last_scraped[Last(calls).source], now)
    /\ response.success

\* C16: a live fetch that extracts no items is a failed fetch: it never
\* completes with an empty batch, and a non-empty cache is never replaced by
\* an empty one nor stamped by such a fetch.
C16_EmptyFetchIsFailure ==
    [][FetchStep =>
          LET c == Last(calls') IN
             /\ c.outcome \in {"live", "savefail"} => c.ret # <<>>
             /\ properties[c.source] # <<>> => properties'[c.source] # <<>>
             /\ properties'[c.source] = <<>> =>
                   last_scraped'[c.source] = last_scraped[c.source]]_vars

\* The {lastScraped, properties} pair of an adapter, in memory and as its
\* cache file would load.
InMemory(ls, props, a) == [last_scraped |-> ls[a], properties |-> props[a]]

\* C17: after every call of fetch_properties the adapter's properties and
\* last_scraped are both as before the call or both those of the new
\* refresh, and the cache file holds the same pair as the memory.
C17_CacheNeverPartial ==
    [][FetchStep =>
          LET c == Last(calls')
              a == c.source
          IN /\ \/ InMemory(last_scraped', properties', a)
                      = InMemory(last_scraped, properties, a)
                \/ InMemory(last_scraped', properties', a)
                      = [last_scraped |-> IsoStamp(now), properties |-> c.ret]
             /\ ~load_cache_raises(cache_file'[a])
             /\ load_cache(cache_file'[a])
                   = InMemory(last_scraped', properties', a)]_vars

\* C18: constructing the adapters never fails because of a cache file.
C18_StartupNeverFails == mode = "live" => pc # "crashed"

HasUnknownTag ==
    /\ "sources" \in DOMAIN filters
    /\ \E i \in 1..Len(filters.sources) : filters.sources[i] \notin AdapterNames

\* C19: a finished live query without a source list called sparkasse,
\* volksbank and lbs once each, in that order; with a source list it called
\* the adapters of the known tags in the order given, the unknown tags
\* raising no error and contributing no listing.  (A null body or a null
\* source list is not a source list.)
C19_AdapterSelection ==
    (mode = "live" /\ pc = "done" /\ filters \notin LiveBadBodies) =>
        /\ "sources" \notin DOMAIN filters =>
              SourcesOf(calls) = <<"sparkasse", "volksbank", "lbs">>
        /\ "sources" \in DOMAIN filters =>
              SourcesOf(calls) =
                  SelectSeq(filters.sources, LAMBDA s : s \in AdapterNames)
        /\ ~search_result.raised
        /\ \A i \in 1..Len(Listings) :
              \E j \in 1..Len(calls) : Listings[i] \in Range(calls[j].ret)

\* A source list with an unknown tag before a known one: only the known
\* adapter was called, and its listings were returned.
C19_Witness ==
    /\ mode = "live"
    /\ pc = "done"
    /\ Get(filters, "sources", <<>>) = <<"zillow", "lbs">>
    /\ SourcesOf(calls) = <<"lbs">>
    /\ calls[1].ret # <<>>
    /\ Listings # <<>>
    /\ response.success

\* C20 as stated: a source list that contains an unknown tag makes the query
\* call all the configured adapters.
C20_UnknownTagSelectsAll ==
    (mode = "live" /\ pc = "done" /\ HasUnknownTag) =>
        SourcesOf(calls) = DefaultSources

\* C20 as amended: a source list that contains unknown tags makes the query
\* call the adapters of its known tags only; when all its tags are unknown no
\* adapter is called and the answer is the successful empty result.
C20_UnknownTagsDropped ==
    (mode = "live" /\ pc = "done" /\ HasUnknownTag) =>
        LET known == SelectSeq(filters.sources, LAMBDA s : s \in AdapterNames)
        IN  /\ SourcesOf(calls) = known
            /\ known = <<>> =>
                  /\ calls = <<>>
                  /\ Listings = <<>>
                  /\ response.success
                  /\ response.properties = <<>>

\* A source list of one unknown tag: no adapter was called.
C20_Witness ==
    /\ mode = "live"
    /\ pc = "done"
    /\ HasUnknownTag
    /\ \A i \in 1..Len(filters.sources) : filters.sources[i] \notin AdapterNames
    /\ calls = <<>>
    /\ response.success
    /\ response.properties = <<>>

\* The calls of a finished query with the given outcomes.
CallsWith(outcomes) == {i \in 1..Len(calls) : calls[i].outcome \in outcomes}

\* C21: when the live fetch of one selected adapter fails on a timeout and
\* the live fetches of the other selected adapters succeed, the result is the
\* deduplicated, ordered listings of the successful adapters only, and the
\* handler answers with success.
C21_TimedOutAdapterLeftOut ==
    (/\ mode = "live"
     /\ pc = "done"
     /\ Cardinality(CallsWith({"fallback"})) = 1
     /\ CallsWith({"live"}) # {}
     /\ CallsWith({"fallback", "live"}) = 1..Len(calls)
     /\ \A i, j \in 1..Len(calls) :
           calls[i].source = calls[j].source => i = j) =>
        /\ Listings =
              SortByDaysOnMarket(
                  Dedup(Concat([i \in 1..Len(calls) |->
                                   IF calls[i].outcome = "live"
                                   THEN calls[i].ret
                                   ELSE <<>>]), {}))
        /\ response.success

ErrorResponse ==
    /\ DOMAIN response = {"success", "status", "error"}
    /\ ~response.success
    /\ response.status = 400

SuccessResponse ==
    /\ DOMAIN response = {"success", "status", "properties", "stats"}
    /\ response.success
    /\ response.status = 200

\* C22: in both services every handled request, whatever its body, ends in
\* an answer that is either a success carrying the listings
\* search_all_sources returned and the statistics get_stats computed for
\* them, or an explicit error; an exception raised by search_all_sources or
\* by get_stats gives the error answer.
C22_HandlerAnswersWhole ==
    pc = "done" =>
        /\ SuccessResponse \/ ErrorResponse
        /\ search_result.raised => ErrorResponse
        /\ SuccessResponse =>
              /\ Answered
              /\ response.properties = Listings
              /\ Returned(response.stats) =
                    IF mode = "live" THEN get_stats_live(Listings)
                                     ELSE get_stats_cached(Listings)
        /\ (Answered /\ mode = "live" /\ get_stats_live(Listings).raised) =>
              ErrorResponse

\* The live service answered a null body with an explicit error.
C22_Witness ==
    /\ mode = "live"
    /\ pc = "done"
    /\ filters = NoneBody
    /\ search_result.raised
    /\ ErrorResponse

\* C23: on every listings sequence a query produced, get_stats of the live
\* service and get_stats of the cache-only service return the same
\* statistics record, or both raise.
C23_SameStatistics ==
    Answered =>
        LET live   == get_stats_live(Listings)
            cached == get_stats_cached(Listings)
        IN  \/ live.raised /\ cached.raised
            \/ live = cached

Refreshing(t) == threads[t].pc \in {"fetching", "fetched", "assigned", "stamped"}

Refreshed(t) == threads[t].pc = "done" /\ threads[t].stamped # NoneStamp

\* C24: when two requests handled at the same time call fetch_properties of
\* the same adapter, at most one of them is refreshing the cache at any
\* time; once both are done the cache holds the properties and the
\* last_scraped of one and the same refresh, the later one, in memory and in
\* the cache file.
C24_RefreshesDoNotInterleave ==
    mode = "concurrent" =>
        /\ Cardinality({t \in Threads : Refreshing(t)}) <= 1
        /\ (\A t \in Threads : threads[t].pc = "done") =>
              \A t \in Threads :
                 (/\ Refreshed(t)
                  /\ \A u \in Threads :
                        Refreshed(u) => threads[u].stamped.t <= threads[t].stamped.t)
                 => (\E u \in Threads :
                        /\ Refreshed(u)
                        /\ threads[u].stamped = threads[t].stamped
                        /\ properties[ConcAdapter] = threads[u].local
                        /\ last_scraped[ConcAdapter] = threads[u].stamped
                        /\ cache_file[ConcAdapter] =
                              JsonFile(threads[u].stamped, threads[u].local))

\* C25: whatever happens in save_cache, the cache file afterwards is the
\* complete file from before or the complete new file holding the adapter's
\* new lastScraped and properties; load_cache can always read it.
C25_SaveIsAtomic ==
    [][mode = "live" =>
          \A a \in AdapterNames :
             cache_file'[a] # cache_file[a] =>
                /\ ~load_cache_raises(cache_file'[a])
                /\ cache_file'[a] = JsonFile(last_scraped'[a], properties'[a])]_vars

\* C26: when the raw items of a live fetch include one that fails
\* normalization, the refresh still succeeds: the other items, normalized,
\* are what the adapter stores as its properties and returns.
C26_BadItemDroppedAlone ==
    [][(/\ FetchStep
        /\ "raw" \in DOMAIN Last(calls')
        /\ \E i \in 1..Len(Last(calls').raw) :
              normalize_property_raises(Last(calls').raw[i])) =>
          LET c == Last(calls') IN
             /\ c.outcome \in {"live", "savefail"}
             /\ c.ret = Siblings(c.source, c.raw)
             /\ properties'[c.source] = c.ret]_vars

\* The calls of the query in which the adapter attempted a live fetch.
LiveAttempts(a) ==
    {i \in 1..Len(calls) :
        calls[i].source = a /\ calls[i].outcome \in LiveOutcomes}

\* C27: within one query every adapter attempts at most one live fetch,
\* whatever the source list and the outcome of the attempt.
C27_OneAttemptPerQuery ==
    (mode = "live" /\ pc \in {"fetch", "done"}) =>
        \A a \in AdapterNames : Cardinality(LiveAttempts(a)) <= 1

\* C28: a call of fetch_properties changes the properties, the last_scraped
\* and the cache file of no adapter but the one called, and no other step of
\* a query (the merge, the deduplication, the sort, the answer) changes any
\* adapter's properties or last_scraped.
C28_CacheOwnedByAdapter ==
    [][mode = "live" =>
          \A a \in AdapterNames :
             (~FetchStep \/ Last(calls').source # a) =>
                /\ properties'[a] = properties[a]
                /\ last_scraped'[a] = last_scraped[a]
                /\ cache_file'[a] = cache_file[a]]_vars

\* A finished query that refreshed one adapter and served another from its
\* cache, whose listings the sort returned in another order than the cache
\* still has them.
C28_Witness ==
    /\ mode = "live"
    /\ pc = "done"
    /\ Answered
    /\ \E i, j \in 1..Len(calls) :
          /\ calls[i].outcome = "live"
          /\ calls[j].outcome = "cached"
          /\ calls[j].source # calls[i].source
          /\ calls[j].ret = properties[calls[j].source]
          /\ calls[j].ret # SortByDaysOnMarket(calls[j].ret)
          /\ properties[calls[j].source] = cache_file[calls[j].source].properties

\* C29: in the cache-only service no step changes CACHED_PROPERTIES, and
\* every answer is the one the criteria determine on that catalog.
C29_CatalogImmutable ==
    [][mode = "cached" =>
          /\ CACHED_PROPERTIES' = CACHED_PROPERTIES
          /\ (pc' = "done" /\ ~search_result'.raised) =>
                /\ search_result'.value =
                      search_all_sources_cached(filters', CACHED_PROPERTIES)
                /\ response'.stats =
                      get_stats_cached(search_result'.value).value]_vars

\* A query answered on a catalog that is not in the order of the sort: all
\* its records are returned, in another order than the catalog has them.
C29_Witness ==
    /\ mode = "cached"
    /\ Answered
    /\ CACHED_PROPERTIES # SortByDaysOnMarket(CACHED_PROPERTIES)
    /\ Len(Listings) = Len(CACHED_PROPERTIES)
    /\ Listings # CACHED_PROPERTIES

====
